---- MODULE Spec2Model ----
(***************************************************************************)
(* Model of the audio capture session of sona (src-tauri/src/audio.rs):    *)
(* the session state AudioCaptureState { process: Mutex<Option<Child>> },  *)
(* the commands start_audio_capture and stop_audio_capture, the spawned    *)
(* capture process with its stdout pipe, and the stdout reader task that   *)
(* emits "audio-packet" events.  A bounded ring buffer, which the design   *)
(* text describes and the sources do not contain, is modelled separately.  *)
(* The download commands of src-tauri/src/lib.rs (process_download,        *)
(* download_file, cancel_download, has_active_downloads) have their own    *)
(* specifications over their own variables.                                *)
(***************************************************************************)
EXTENDS Integers, Sequences, FiniteSets, TLC

\* ---------------------------------------------------------------- bounds
MaxCalls == 4       \* command invocations in one behaviour
MaxBytes == 2       \* bytes the capture processes write to stdout in one behaviour
BufSize == 2        \* length of the reader's buffer (stands for [0u8; 4096])
Capacity == 4       \* capacity of the ring buffer
MaxSample == 2      \* ring-buffer samples are 0..MaxSample
MaxItems == 3       \* items of a download stream
MaxChunk == 2       \* bytes of one chunk of a download stream
MaxTicks == 2       \* ticks of the canary task that are counted

NTasks == MaxCalls \div 2     \* concurrent callers of the two commands
MaxSpawn == MaxCalls \div 2   \* capture processes the host lets the session spawn
Tasks == 1..NTasks
Children == 1..MaxSpawn
None == 0
Downloads == 1..NTasks        \* concurrent download_file calls
Ids == 1..NTasks              \* download ids the callers use

VARIABLES
    platform,    \* the cfg(target_os) the binary was built for
    process,     \* AudioCaptureState.process: None or the held Child
    lockHolder,  \* owner of the tokio Mutex around process, None if free
    pc,          \* position of each caller inside a command
    result,      \* the value the caller's last command returned, if it has
    observed,    \* what the caller's last start found in process
    victim,      \* the Child a stop took out of process and is killing
    status,      \* each capture process: unspawned, running, exited, killed
    produced,    \* bytes each capture process has written to stdout
    pipe,        \* bytes written to stdout and not yet read
    reader,      \* each stdout reader task: none, reading, stopped
    delivered,   \* chunks emitted as "audio-packet", per capture process
    opens,       \* capture processes spawned so far
    closes,      \* capture processes killed by stop so far
    nStarts,     \* start commands invoked
    nStartsDone, \* start commands returned
    nStartsOk,   \* start commands that returned Ok
    nStops,      \* stop commands invoked
    nStopsDone,  \* stop commands returned
    mixed,       \* a start was invoked after a stop, or a stop during a start
    rb,          \* ring buffer contents, oldest first
    rbPushed,    \* value returned by the last push
    rbPopped,    \* value returned by the last pop_into
    pdPc,        \* process_download: idle, next, write, done
    pdStream,    \* the stream it was given: chunk lengths and ErrItem
    pdTotal,     \* its total_size argument
    pdPos,       \* items taken from the stream so far
    pdCur,       \* bytes of the current chunk write_all has yet to write
    pdWritten,   \* every byte the writer has accepted, in order
    pdDownloaded,\* the local counter downloaded
    pdProgress,  \* the first arguments of the on_progress calls, in order
    pdResult,    \* the value process_download returned
    wLen,        \* bytes held by the bounded writer (the duplex pipe)
    wBroken,     \* the writer fails every further write
    ticks,       \* ticks of the canary task
    registry,    \* DownloadState.downloads: id -> the download whose Notify it maps
    notify,      \* per download: its Notify holds a permit
    dlPc,        \* download_file: idle, request, transfer, cleanup, deleting, done
    dlId,        \* the id argument of each download_file call
    dlItems,     \* stream items each download has consumed
    dlFile,      \* the output file of each download: absent, present
    dlSelect,    \* the value of the select! expression
    dlResult,    \* the value download_file returned
    cancelSeen,  \* a cancel_download signalled the download in time
    lastCancel,  \* what the last cancel_download found: none, hit, miss
    cancelResult,\* the value the last cancel_download returned
    nDlCalls     \* download_file and cancel_download invocations

audioVars == <<platform, process, lockHolder, pc, result, observed, victim, status,
               produced, pipe, reader, delivered, opens, closes, nStarts,
               nStartsDone, nStartsOk, nStops, nStopsDone, mixed>>
ringVars == <<rb, rbPushed, rbPopped>>
pdVars == <<pdPc, pdStream, pdTotal, pdPos, pdCur, pdWritten, pdDownloaded,
            pdProgress, pdResult, wLen, wBroken, ticks>>
dlVars == <<registry, notify, dlPc, dlId, dlItems, dlFile, dlSelect, dlResult, cancelSeen, lastCancel,
            cancelResult, nDlCalls>>
vars == <<audioVars, ringVars, pdVars, dlVars>>

Min(a, b) == IF a < b THEN a ELSE b

Platforms == {"windows", "unix"}
DeviceIds == {"default", "mic"}
Envs == [resolveOk : BOOLEAN, resourceExists : BOOLEAN,
         flatExists : BOOLEAN, spawnOk : BOOLEAN]

\* ------------------------------------------------------ start_audio_capture

\* get_ffmpeg_path: the resource path, else the flattened path, else an error
get_ffmpeg_path(env) ==
    IF ~env.resolveOk THEN "ErrResolve"
    ELSE IF ~env.resourceExists
         THEN IF env.flatExists THEN "Ok" ELSE "ErrFfmpegNotFound"
         ELSE "Ok"

\* if process_guard.is_some()
AlreadyRunning(p) == p # None

\* cmd.spawn(): fails when the host refuses another process
SpawnSucceeds(env, n) == env.spawnOk /\ n < MaxSpawn

\* The value start_audio_capture returns, in the order the code decides it.
StartOutcome(p, plat, dev, env, n) ==
    IF AlreadyRunning(p) THEN "ErrAlreadyRunning"
    ELSE IF get_ffmpeg_path(env) # "Ok" THEN get_ffmpeg_path(env)
    ELSE IF plat = "windows" /\ dev = "default" THEN "ErrDefaultDshow"
    ELSE IF ~SpawnSucceeds(env, n) THEN "ErrSpawn"
    ELSE "Ok"

\* Does this call spawn a capture process?
Spawns_evenOnSpawnError(p, plat, dev, env, n) ==
    /\ n < MaxSpawn
    /\ StartOutcome(p, plat, dev, env, n) \in {"Ok", "ErrSpawn"}
    /\ ~AlreadyRunning(p)
Spawns(p, plat, dev, env, n) ==
    /\ ~AlreadyRunning(p)
    /\ StartOutcome(p, plat, dev, env, n) = "Ok"

\* What the start found in the session state.
Observe(p) ==
    IF p = None THEN "idle"
    ELSE IF status[p] = "running" THEN "active" ELSE "ended"

\* the command is invoked and waits at state.process.lock().await
StartCall(t) ==
    /\ pc[t] = "idle"
    /\ nStarts + nStops < MaxCalls
    /\ pc' = [pc EXCEPT ![t] = "start_wait"]
    /\ nStarts' = nStarts + 1
    /\ mixed' = (mixed \/ nStops > 0)
    /\ result' = [result EXCEPT ![t] = "none"]
    /\ observed' = [observed EXCEPT ![t] = "none"]
    /\ UNCHANGED <<platform, process, lockHolder, victim, status,
                   produced, pipe, reader, delivered, opens, closes,
                   nStartsDone, nStartsOk, nStops, nStopsDone, ringVars, pdVars, dlVars>>

\* the lock is granted
StartLock(t) ==
    /\ pc[t] = "start_wait"
    /\ lockHolder = None
    /\ lockHolder' = t
    /\ pc' = [pc EXCEPT ![t] = "start_locked"]
    /\ UNCHANGED <<platform, process, result, observed, victim, status, produced,
                   pipe, reader, delivered, opens, closes, nStarts,
                   nStartsDone, nStartsOk, nStops, nStopsDone, mixed,
                   ringVars, pdVars, dlVars>>

\* everything after the lock: no await point until the function returns
StartBody(t) ==
    /\ pc[t] = "start_locked"
    /\ \E dev \in DeviceIds, env \in Envs :
         LET r == StartOutcome(process, platform, dev, env, opens)
             c == opens + 1
         IN  /\ result' = [result EXCEPT ![t] = r]
             /\ observed' = [observed EXCEPT ![t] = Observe(process)]
             /\ nStartsOk' = IF r = "Ok" THEN nStartsOk + 1 ELSE nStartsOk
             /\ IF Spawns(process, platform, dev, env, opens)
                THEN /\ status' = [status EXCEPT ![c] = "running"]
                     /\ reader' = [reader EXCEPT ![c] = "reading"]
                     /\ process' = c
                     /\ opens' = c
                ELSE UNCHANGED <<status, reader, process, opens>>
    /\ pc' = [pc EXCEPT ![t] = "idle"]
    /\ lockHolder' = None
    /\ nStartsDone' = nStartsDone + 1
    /\ UNCHANGED <<platform, victim, produced, pipe, delivered, closes, nStarts,
                   nStops, nStopsDone, mixed, ringVars, pdVars, dlVars>>

\* ------------------------------------------------------- stop_audio_capture

StopCall(t) ==
    /\ pc[t] = "idle"
    /\ nStarts + nStops < MaxCalls
    /\ pc' = [pc EXCEPT ![t] = "stop_wait"]
    /\ nStops' = nStops + 1
    /\ mixed' = (mixed \/ nStartsDone < nStarts)
    /\ result' = [result EXCEPT ![t] = "none"]
    /\ observed' = [observed EXCEPT ![t] = "none"]
    /\ UNCHANGED <<platform, process, lockHolder, victim, status,
                   produced, pipe, reader, delivered, opens, closes, nStarts,
                   nStartsDone, nStartsOk, nStopsDone, ringVars, pdVars, dlVars>>

StopLock(t) ==
    /\ pc[t] = "stop_wait"
    /\ lockHolder = None
    /\ lockHolder' = t
    /\ pc' = [pc EXCEPT ![t] = "stop_locked"]
    /\ UNCHANGED <<platform, process, result, observed, victim, status, produced,
                   pipe, reader, delivered, opens, closes, nStarts,
                   nStartsDone, nStartsOk, nStops, nStopsDone, mixed,
                   ringVars, pdVars, dlVars>>

\* the value stop_audio_capture returns
StopOutcome_errWhenIdle(p) == IF p = None THEN "ErrNotRunning" ELSE "Ok"
StopOutcome(p) == "Ok"

\* Does the guard stay held while child.kill().await is pending?
HoldsLockWhileKilling(t) == TRUE

\* process_guard.take(): with a child, go on to child.kill().await;
\* without one, return at once
StopTake(t) ==
    /\ pc[t] = "stop_locked"
    /\ process' = None
    /\ IF process # None
       THEN /\ pc' = [pc EXCEPT ![t] = "stop_killing"]
            /\ victim' = [victim EXCEPT ![t] = process]
            /\ lockHolder' = IF HoldsLockWhileKilling(t) THEN lockHolder
                             ELSE None
            /\ UNCHANGED <<result, nStopsDone>>
       ELSE /\ pc' = [pc EXCEPT ![t] = "idle"]
            /\ lockHolder' = None
            /\ result' = [result EXCEPT ![t] = StopOutcome(process)]
            /\ nStopsDone' = nStopsDone + 1
            /\ UNCHANGED victim
    /\ UNCHANGED <<platform, observed, status, produced, pipe, reader,
                   delivered, opens, closes, nStarts, nStartsDone, nStartsOk,
                   nStops, mixed, ringVars, pdVars, dlVars>>

\* let _ = child.kill().await has completed.  On success the process is
\* gone and its end of the stdout pipe is closed.  On failure the error is
\* discarded: a process that was still running stays running, a process
\* that had exited stays exited.  Either way the function returns Ok and the
\* guard is dropped.
StopKilled(t) ==
    /\ pc[t] = "stop_killing"
    /\ \E killOk \in BOOLEAN :
         IF killOk
         THEN /\ status' = [status EXCEPT ![victim[t]] = "killed"]
              /\ closes' = closes + 1
         ELSE UNCHANGED <<status, closes>>
    /\ result' = [result EXCEPT ![t] = StopOutcome(victim[t])]
    /\ victim' = [victim EXCEPT ![t] = None]
    /\ pc' = [pc EXCEPT ![t] = "idle"]
    /\ lockHolder' = IF lockHolder = t THEN None ELSE lockHolder
    /\ nStopsDone' = nStopsDone + 1
    /\ UNCHANGED <<platform, process, observed, produced, pipe, reader,
                   delivered, opens, nStarts, nStartsDone, nStartsOk, nStops,
                   mixed, ringVars, pdVars, dlVars>>

\* ------------------------------------------ capture process and its stdout

\* bytes written to stdout by the capture processes 1..n together
RECURSIVE TotalProduced(_)
TotalProduced(n) == IF n = 0 THEN 0 ELSE produced[n] + TotalProduced(n - 1)

\* the capture process writes k more bytes; byte i of the stream has value i
ChildWrite(c) ==
    /\ status[c] = "running"
    /\ \E k \in 1..MaxBytes :
         /\ TotalProduced(MaxSpawn) + k <= MaxBytes
         /\ produced' = [produced EXCEPT ![c] = @ + k]
         /\ pipe' = [pipe EXCEPT
                       ![c] = @ \o [i \in 1..k |-> produced[c] + i]]
    /\ UNCHANGED <<platform, process, lockHolder, pc, result, observed,
                   victim, status, reader, delivered, opens, closes, nStarts,
                   nStartsDone, nStartsOk, nStops, nStopsDone, mixed,
                   ringVars, pdVars, dlVars>>

\* the capture process terminates on its own (device lost, crash)
ChildExit(c) ==
    /\ status[c] = "running"
    /\ status' = [status EXCEPT ![c] = "exited"]
    /\ UNCHANGED <<platform, process, lockHolder, pc, result, observed,
                   victim, produced, pipe, reader, delivered, opens, closes,
                   nStarts, nStartsDone, nStartsOk, nStops, nStopsDone, mixed,
                   ringVars, pdVars, dlVars>>

\* ------------------------------------------------------ stdout reader task

\* reader.read(&mut buffer): Ok(n) with as many of the available bytes as
\* the buffer holds
ReadLen(avail) == Min(BufSize, avail)

\* buffer[0..n].to_vec()
Chunk_skipFirst(bytes, n) == SubSeq(bytes, 2, n)
Chunk(bytes, n) == SubSeq(bytes, 1, n)

\* Ok(n): the chunk is emitted as "audio-packet"; a failed emit ends the loop
ReaderRead(c) ==
    /\ reader[c] = "reading"
    /\ pipe[c] # <<>>
    /\ LET n == ReadLen(Len(pipe[c]))
       IN  /\ pipe' = [pipe EXCEPT ![c] = SubSeq(@, n + 1, Len(@))]
           /\ \E emitOk \in BOOLEAN :
                IF emitOk
                THEN /\ delivered' = [delivered EXCEPT
                                        ![c] = Append(@, Chunk(pipe[c], n))]
                     /\ UNCHANGED reader
                ELSE /\ reader' = [reader EXCEPT ![c] = "stopped"]
                     /\ UNCHANGED delivered
    /\ UNCHANGED <<platform, process, lockHolder, pc, result, observed,
                   victim, status, produced, opens, closes, nStarts,
                   nStartsDone, nStartsOk, nStops, nStopsDone, mixed,
                   ringVars, pdVars, dlVars>>

\* Ok(0): the process is gone and the pipe is drained; the loop breaks and
\* "audio-capture-stopped" is emitted
ReaderEof(c) ==
    /\ reader[c] = "reading"
    /\ pipe[c] = <<>>
    /\ status[c] \in {"exited", "killed"}
    /\ reader' = [reader EXCEPT ![c] = "stopped"]
    /\ UNCHANGED <<platform, process, lockHolder, pc, result, observed,
                   victim, status, produced, pipe, delivered, opens, closes,
                   nStarts, nStartsDone, nStartsOk, nStops, nStopsDone, mixed,
                   ringVars, pdVars, dlVars>>

\* Err(e): the read fails; the loop breaks the same way
ReaderErr(c) ==
    /\ reader[c] = "reading"
    /\ reader' = [reader EXCEPT ![c] = "stopped"]
    /\ UNCHANGED <<platform, process, lockHolder, pc, result, observed,
                   victim, status, produced, pipe, delivered, opens, closes,
                   nStarts, nStartsDone, nStartsOk, nStops, nStopsDone, mixed,
                   ringVars, pdVars, dlVars>>

\* ------------------------------------------------------------- ring buffer

\* push(sample) -> bool: false on overrun, the sample is dropped
PushAccepts_always(buf) == TRUE
PushAccepts(buf) == Len(buf) < Capacity

Push(x) ==
    /\ rbPushed' = PushAccepts(rb)
    /\ rb' = IF PushAccepts(rb) THEN Append(rb, x) ELSE rb
    /\ UNCHANGED <<rbPopped, audioVars, pdVars, dlVars>>

\* pop_into(slice) -> usize: removes up to slice.len() samples, oldest first,
\* and returns how many
PopInto(n) ==
    /\ rbPopped' = Min(n, Len(rb))
    /\ rb' = SubSeq(rb, Min(n, Len(rb)) + 1, Len(rb))
    /\ UNCHANGED <<rbPushed, audioVars, pdVars, dlVars>>

\* occupied_len() -> usize
occupied_len == Len(rb)

\* -------------------------------------------------------- process_download

ErrItem == -1                    \* a stream item Err(e); n >= 1 is Ok(n bytes)
Items == {ErrItem} \cup (1..MaxChunk)
Streams == UNION {[1..n -> Items] : n \in 0..MaxItems}
WCap == MaxChunk                 \* duplex(10) against chunks of 10 bytes

\* bytes of the first k items of a stream of chunks
RECURSIVE SumTo(_, _)
SumTo(s, k) == IF k = 0 THEN 0 ELSE s[k] + SumTo(s, k - 1)

\* the bytes of a chunk; byte i of the whole stream has value i
ChunkBytes(base, n) == [i \in 1..n |-> base + i]

\* let chunk = item?;
ItemIsErr_never(item) == FALSE
ItemIsErr(item) == item = ErrItem

\* poll_write of the bounded writer accepts what fits
WriteLen_ignoresCapacity(cur, held) == Len(cur)
WriteLen(cur, held) == Min(Len(cur), WCap - held)

\* write_all keeps the rest of the chunk for the next poll_write
Rest_dropsRemainder(cur, n) == <<>>
Rest(cur, n) == SubSeq(cur, n + 1, Len(cur))

\* if total_size > 0 { if downloaded == total_size || elapsed >= 100ms
ShouldReport_throttleOnly(downloaded, total, elapsed) == total > 0 /\ elapsed
ShouldReport(downloaded, total, elapsed) ==
    total > 0 /\ (downloaded = total \/ elapsed)

\* process_download(stream, writer, total_size, on_progress) is called
PdCall ==
    /\ pdPc = "idle"
    /\ pdStream' \in Streams
    /\ pdTotal' \in 0..MaxItems
    /\ pdPc' = "next"
    /\ UNCHANGED <<pdPos, pdCur, pdWritten, pdDownloaded, pdProgress,
                   pdResult, wLen, wBroken, ticks, audioVars, ringVars,
                   dlVars>>

\* stream.next().await: end of stream returns Ok, an Err item returns it,
\* a chunk goes to write_all
PdNext ==
    /\ pdPc = "next"
    /\ IF pdPos = Len(pdStream)
       THEN /\ pdResult' = "Ok"
            /\ pdPc' = "done"
            /\ UNCHANGED <<pdPos, pdCur>>
       ELSE IF ItemIsErr(pdStream[pdPos + 1])
       THEN /\ pdResult' = "ErrStream"
            /\ pdPc' = "done"
            /\ UNCHANGED <<pdPos, pdCur>>
       ELSE /\ pdCur' = ChunkBytes(Len(pdWritten), pdStream[pdPos + 1])
            /\ pdPos' = pdPos + 1
            /\ pdPc' = "write"
            /\ UNCHANGED pdResult
    /\ UNCHANGED <<pdStream, pdTotal, pdWritten, pdDownloaded, pdProgress,
                   wLen, wBroken, ticks, audioVars, ringVars, dlVars>>

\* writer.write_all(&chunk).await makes progress; when the chunk is through,
\* downloaded grows and on_progress may be called
PdWrite ==
    /\ pdPc = "write"
    /\ ~wBroken
    /\ WriteLen(pdCur, wLen) > 0
    /\ LET n == WriteLen(pdCur, wLen)
           d == pdDownloaded + pdStream[pdPos]
       IN  /\ pdWritten' = pdWritten \o SubSeq(pdCur, 1, n)
           /\ wLen' = wLen + n
           /\ pdCur' = Rest(pdCur, n)
           /\ IF Rest(pdCur, n) = <<>>
              THEN /\ pdDownloaded' = d
                   /\ pdPc' = "next"
                   /\ \E elapsed \in BOOLEAN :
                        pdProgress' = IF ShouldReport(d, pdTotal, elapsed)
                                      THEN Append(pdProgress, d)
                                      ELSE pdProgress
              ELSE UNCHANGED <<pdDownloaded, pdPc, pdProgress>>
    /\ UNCHANGED <<pdStream, pdTotal, pdPos, pdResult, wBroken, ticks,
                   audioVars, ringVars, dlVars>>

\* write_all returns Err(e), mapped to a String and returned
PdWriteFail ==
    /\ pdPc = "write"
    /\ wBroken
    /\ pdResult' = "ErrWrite"
    /\ pdPc' = "done"
    /\ UNCHANGED <<pdStream, pdTotal, pdPos, pdCur, pdWritten, pdDownloaded,
                   pdProgress, wLen, wBroken, ticks, audioVars, ringVars,
                   dlVars>>

\* the other end of the writer goes away (reader dropped, disk error)
WriterBreak ==
    /\ pdPc \in {"next", "write"}
    /\ ~wBroken
    /\ wBroken' = TRUE
    /\ UNCHANGED <<pdPc, pdStream, pdTotal, pdPos, pdCur, pdWritten,
                   pdDownloaded, pdProgress, pdResult, wLen, ticks,
                   audioVars, ringVars, dlVars>>

\* the slow reader of the test: client.read(&mut buf) with a buffer as long
\* as the pipe takes what is there
DuplexRead ==
    /\ wLen > 0
    /\ wLen' = 0
    /\ UNCHANGED <<pdPc, pdStream, pdTotal, pdPos, pdCur, pdWritten,
                   pdDownloaded, pdProgress, pdResult, wBroken, ticks,
                   audioVars, ringVars, dlVars>>

\* the canary task of the test wakes from its sleep and counts a tick
CanaryTick ==
    /\ ticks < MaxTicks
    /\ ticks' = ticks + 1
    /\ UNCHANGED <<pdPc, pdStream, pdTotal, pdPos, pdCur, pdWritten,
                   pdDownloaded, pdProgress, pdResult, wLen, wBroken,
                   audioVars, ringVars, dlVars>>

\* ----------------------------------- download_file and cancel_download

\* has_active_downloads: Ok(!downloads.is_empty())
has_active_downloads == \E i \in Ids : registry[i] # None

\* downloads.insert(id, notify) and downloads.remove(&id)
Insert(reg, id, d) == [reg EXCEPT ![id] = d]
Remove(reg, id) == [reg EXCEPT ![id] = None]

\* what cancel_download leaves in the registry: it only reads it
CancelRegistry_removes(reg, id) == Remove(reg, id)
CancelRegistry(reg, id) == reg

\* cancel_download(id): notify_one() on the registered Notify, if any
Cancel(id) ==
    /\ nDlCalls < MaxCalls
    /\ nDlCalls' = nDlCalls + 1
    /\ registry' = CancelRegistry(registry, id)
    /\ cancelResult' = "Ok"
    /\ IF registry[id] # None
       THEN /\ notify' = [notify EXCEPT ![registry[id]] = TRUE]
            /\ lastCancel' = "hit"
            /\ cancelSeen' = [cancelSeen EXCEPT ![registry[id]] =
                                @ \/ dlPc[registry[id]] \in {"request", "transfer"}]
       ELSE /\ lastCancel' = "miss"
            /\ UNCHANGED <<notify, cancelSeen>>
    /\ UNCHANGED <<dlPc, dlId, dlItems, dlFile, dlSelect, dlResult,
                   audioVars, ringVars, pdVars>>

\* download_file is called: the id is registered, the client is built
DlCall(d, id) ==
    /\ dlPc[d] = "idle"
    /\ nDlCalls < MaxCalls
    /\ nDlCalls' = nDlCalls + 1
    /\ registry' = Insert(registry, id, d)
    /\ dlId' = [dlId EXCEPT ![d] = id]
    /\ \E buildOk \in BOOLEAN :
         IF buildOk
         THEN /\ dlPc' = [dlPc EXCEPT ![d] = "request"]
              /\ UNCHANGED dlResult
         ELSE /\ dlPc' = [dlPc EXCEPT ![d] = "done"]
              /\ dlResult' = [dlResult EXCEPT ![d] = "ErrBuild"]
    /\ UNCHANGED <<notify, dlItems, dlFile, dlSelect, cancelSeen, lastCancel,
                   cancelResult, audioVars, ringVars, pdVars>>

\* client.get(&url).send().await completes; then the status check and
\* File::create
DlResponse(d) ==
    /\ dlPc[d] = "request"
    /\ \E outcome \in {"sendErr", "badStatus", "createErr", "ok"} :
         CASE outcome = "sendErr" ->
                /\ dlResult' = [dlResult EXCEPT ![d] = "ErrSend"]
                /\ dlPc' = [dlPc EXCEPT ![d] = "done"]
                /\ UNCHANGED <<registry, dlFile>>
           [] outcome = "badStatus" ->
                /\ registry' = Remove(registry, dlId[d])
                /\ dlResult' = [dlResult EXCEPT ![d] = "ErrStatus"]
                /\ dlPc' = [dlPc EXCEPT ![d] = "done"]
                /\ UNCHANGED dlFile
           [] outcome = "createErr" ->
                /\ dlResult' = [dlResult EXCEPT ![d] = "ErrCreate"]
                /\ dlPc' = [dlPc EXCEPT ![d] = "done"]
                /\ UNCHANGED <<registry, dlFile>>
           [] outcome = "ok" ->
                /\ dlFile' = [dlFile EXCEPT ![d] = "present"]
                /\ dlPc' = [dlPc EXCEPT ![d] = "transfer"]
                /\ UNCHANGED <<registry, dlResult>>
    /\ UNCHANGED <<notify, dlId, dlItems, dlSelect, cancelSeen, lastCancel,
                   cancelResult, nDlCalls, audioVars, ringVars, pdVars>>

\* select! runs the transfer branch: one stream item is written, or the
\* branch ends with the flushed file or with an error.  The progress events
\* follow the rule of process_download and are not recorded here.
DlBody(d) ==
    /\ dlPc[d] = "transfer"
    /\ \E ev \in {"chunk", "writeErr", "streamErr", "end", "flushErr"} :
         IF ev = "chunk"
         THEN /\ dlItems[d] < MaxItems
              /\ dlItems' = [dlItems EXCEPT ![d] = @ + 1]
              /\ UNCHANGED <<dlSelect, dlPc>>
         ELSE /\ dlSelect' = [dlSelect EXCEPT ![d] =
                                CASE ev = "writeErr" -> "ErrWrite"
                                  [] ev = "streamErr" -> "ErrStream"
                                  [] ev = "flushErr" -> "ErrFlush"
                                  [] ev = "end" -> "Ok"]
              /\ dlPc' = [dlPc EXCEPT ![d] = "cleanup"]
              /\ UNCHANGED dlItems
    /\ UNCHANGED <<registry, notify, dlId, dlFile, dlResult, cancelSeen,
                   lastCancel, cancelResult, nDlCalls, audioVars, ringVars,
                   pdVars>>

\* select! finds notify.notified() ready: the permit is consumed
DlCancelled(d) ==
    /\ dlPc[d] = "transfer"
    /\ notify[d]
    /\ notify' = [notify EXCEPT ![d] = FALSE]
    /\ dlSelect' = [dlSelect EXCEPT ![d] = "ErrCancelled"]
    /\ dlPc' = [dlPc EXCEPT ![d] = "cleanup"]
    /\ UNCHANGED <<registry, dlId, dlItems, dlFile, dlResult, cancelSeen,
                   lastCancel, cancelResult, nDlCalls, audioVars, ringVars,
                   pdVars>>

\* after select!: the registry lock is taken, the id is removed and the lock
\* released; an Ok result is returned at once, an error result goes on to
\* delete the file
DlCleanup(d) ==
    /\ dlPc[d] = "cleanup"
    /\ registry' = Remove(registry, dlId[d])
    /\ IF dlSelect[d] = "Ok"
       THEN /\ dlResult' = [dlResult EXCEPT ![d] = dlSelect[d]]
            /\ dlSelect' = [dlSelect EXCEPT ![d] = "none"]
            /\ dlItems' = [dlItems EXCEPT ![d] = 0]
            /\ dlPc' = [dlPc EXCEPT ![d] = "done"]
       ELSE /\ dlPc' = [dlPc EXCEPT ![d] = "deleting"]
            /\ UNCHANGED <<dlResult, dlSelect, dlItems>>
    /\ UNCHANGED <<notify, dlId, dlFile, cancelSeen, lastCancel, cancelResult,
                   nDlCalls, audioVars, ringVars, pdVars>>

\* let _ = tokio::fs::remove_file(&output_path).await completes: the file is
\* gone, or the deletion failed and its error is discarded; the result of
\* select! is returned and the locals are gone
DlDelete(d) ==
    /\ dlPc[d] = "deleting"
    /\ \E removeOk \in BOOLEAN :
         dlFile' = IF removeOk THEN [dlFile EXCEPT ![d] = "absent"] ELSE dlFile
    /\ dlResult' = [dlResult EXCEPT ![d] = dlSelect[d]]
    /\ dlSelect' = [dlSelect EXCEPT ![d] = "none"]
    /\ dlItems' = [dlItems EXCEPT ![d] = 0]
    /\ dlPc' = [dlPc EXCEPT ![d] = "done"]
    /\ UNCHANGED <<registry, notify, dlId, cancelSeen, lastCancel, cancelResult,
                   nDlCalls, audioVars, ringVars, pdVars>>

\* ------------------------------------------------------------ specification

Init ==
    /\ platform \in Platforms
    /\ process = None
    /\ lockHolder = None
    /\ pc = [t \in Tasks |-> "idle"]
    /\ result = [t \in Tasks |-> "none"]
    /\ observed = [t \in Tasks |-> "none"]
    /\ victim = [t \in Tasks |-> None]
    /\ status = [c \in Children |-> "unspawned"]
    /\ produced = [c \in Children |-> 0]
    /\ pipe = [c \in Children |-> <<>>]
    /\ reader = [c \in Children |-> "none"]
    /\ delivered = [c \in Children |-> <<>>]
    /\ opens = 0
    /\ closes = 0
    /\ nStarts = 0
    /\ nStartsDone = 0
    /\ nStartsOk = 0
    /\ nStops = 0
    /\ nStopsDone = 0
    /\ mixed = FALSE
    /\ rb = <<>>
    /\ rbPushed = TRUE
    /\ rbPopped = 0
    /\ pdPc = "idle"
    /\ pdStream = <<>>
    /\ pdTotal = 0
    /\ pdPos = 0
    /\ pdCur = <<>>
    /\ pdWritten = <<>>
    /\ pdDownloaded = 0
    /\ pdProgress = <<>>
    /\ pdResult = "none"
    /\ wLen = 0
    /\ wBroken = FALSE
    /\ ticks = 0
    /\ registry = [i \in Ids |-> None]
    /\ notify = [d \in Downloads |-> FALSE]
    /\ dlPc = [d \in Downloads |-> "idle"]
    /\ dlId = [d \in Downloads |-> None]
    /\ dlItems = [d \in Downloads |-> 0]
    /\ dlFile = [d \in Downloads |-> "absent"]
    /\ dlSelect = [d \in Downloads |-> "none"]
    /\ dlResult = [d \in Downloads |-> "none"]
    /\ cancelSeen = [d \in Downloads |-> FALSE]
    /\ lastCancel = "none"
    /\ cancelResult = "none"
    /\ nDlCalls = 0

Next ==
    \/ \E t \in Tasks : StartCall(t)
    \/ \E t \in Tasks : StartLock(t)
    \/ \E t \in Tasks : StartBody(t)
    \/ \E t \in Tasks : StopCall(t)
    \/ \E t \in Tasks : StopLock(t)
    \/ \E t \in Tasks : StopTake(t)
    \/ \E t \in Tasks : StopKilled(t)
    \/ \E c \in Children : ChildWrite(c)
    \/ \E c \in Children : ChildExit(c)
    \/ \E c \in Children : ReaderRead(c)
    \/ \E c \in Children : ReaderEof(c)
    \/ \E c \in Children : ReaderErr(c)

Spec == Init /\ [][Next]_vars

NextRing ==
    \/ \E x \in 0..MaxSample : Push(x)
    \/ \E n \in 1..Capacity : PopInto(n)

SpecRing == Init /\ [][NextRing]_vars

\* process_download against a bounded writer that may fail
NextPD ==
    \/ PdCall
    \/ PdNext
    \/ PdWrite
    \/ PdWriteFail
    \/ WriterBreak
    \/ DuplexRead

SpecPD == Init /\ [][NextPD]_vars

\* the scenario of tests/blocking_io_test.rs: a stream of Ok chunks and
\* total_size 0, a reader
\* that keeps draining, a canary task; the executor polls every ready task
PdCallOk ==
    /\ PdCall
    /\ pdTotal' = 0
    /\ \A i \in 1..Len(pdStream') : pdStream'[i] # ErrItem

NextBackpressure ==
    \/ PdCallOk
    \/ PdNext
    \/ PdWrite
    \/ DuplexRead
    \/ CanaryTick

SpecBackpressure ==
    /\ Init
    /\ [][NextBackpressure]_vars
    /\ WF_vars(PdNext)
    /\ WF_vars(PdWrite)
    /\ WF_vars(DuplexRead)

\* ------------------------------------------------------------------ claims

StartErrors == {"ErrResolve", "ErrFfmpegNotFound", "ErrDefaultDshow", "ErrSpawn"}

RECURSIVE Flatten(_)
Flatten(chunks) ==
    IF chunks = <<>> THEN <<>> ELSE Head(chunks) \o Flatten(Tail(chunks))

Running == {c \in Children : status[c] = "running"}

\* C1 as stated: at every moment at most one capture process of the session
\* is running, whatever the interleaving of start and stop calls; a process
\* that a stop has released is not running when a later start spawns one.
C1_AtMostOneStream == Cardinality(Running) <= 1

\* C2 as stated: a start that finds the session Active returns success.
C2_StartOnActiveSucceeds ==
    \A t \in Tasks : observed[t] = "active" => result[t] = "Ok"

\* C3 as stated: after N starts followed by fewer than N stops the one
\* stream that was opened is still held by the session.
C3_OpenUntilLastStop ==
    (/\ ~mixed /\ nStartsDone = nStarts /\ opens = 1
     /\ nStopsDone >= 1 /\ nStopsDone < nStarts)
    => process # None

\* C4: a start from Idle that fails returns one of the setup errors, leaves
\* process None, spawns nothing, starts no reader and delivers nothing, and
\* releases the lock; streams are opened only by starts that return Ok.
C4_FailedStartLeavesIdle ==
    [][/\ opens' = nStartsOk'
       /\ \A t \in Tasks :
            (/\ pc[t] = "start_locked" /\ pc'[t] = "idle"
             /\ process = None /\ result'[t] # "Ok")
            => /\ result'[t] \in StartErrors
               /\ process' = None
               /\ lockHolder' = None
               /\ UNCHANGED <<status, reader, pipe, produced, delivered,
                              opens, closes>>]_vars

C4_Witness ==
    \E t, u \in Tasks :
        /\ observed[t] = "idle" /\ result[t] = "ErrDefaultDshow"
        /\ observed[u] = "idle" /\ result[u] = "ErrFfmpegNotFound"
        /\ process = None /\ opens = 0

\* C5: every stop returns Ok and leaves process None; a stop that finds the
\* session Idle changes nothing else.
C5_StopAlwaysOk ==
    [][\A t \in Tasks :
         (pc[t] \in {"stop_locked", "stop_killing"} /\ pc'[t] = "idle")
         => /\ result'[t] = "Ok"
            /\ process' = None
            /\ pc[t] = "stop_locked"
               => /\ process = None
                  /\ UNCHANGED <<status, reader, pipe, produced, delivered,
                                 opens, closes>>]_vars

\* start, stop, stop: the second stop found the session Idle
C5_Witness ==
    /\ nStarts = 1 /\ nStopsDone = 2 /\ closes = 1 /\ process = None
    /\ \A t \in Tasks : result[t] = "Ok"

\* C6 as stated: once the stop that killed a capture process has returned,
\* no further chunk of that process is delivered.
C6_NoChunkAfterStop ==
    [][\A c \in Children :
         status[c] = "killed" => delivered'[c] = delivered[c]]_vars

\* C7 as stated: a start issued after the stream ended on its own opens a
\* new stream instead of being rejected as already running.
C7_StartAfterStreamEnd ==
    \A t \in Tasks : observed[t] = "ended" => result[t] # "ErrAlreadyRunning"

\* C8: the chunks delivered for one stream, concatenated, are a prefix of
\* the bytes the stream produced (byte i has value i), and none is empty.
C8_DeliveredIsPrefix ==
    \A c \in Children :
        LET f == Flatten(delivered[c])
        IN  /\ Len(f) <= produced[c]
            /\ \A i \in 1..Len(f) : f[i] = i
            /\ \A k \in 1..Len(delivered[c]) : delivered[c][k] # <<>>

C8_Witness == \E c \in Children : Len(delivered[c]) >= 2

\* C9 as stated: every delivered chunk has an even number of bytes.
C9_WholeSamples ==
    \A c \in Children :
        \A k \in 1..Len(delivered[c]) : Len(delivered[c][k]) % 2 = 0

\* C10: the ring buffer never holds more than Capacity samples, and a push
\* on a full buffer leaves it unchanged and returns false.
C10_Overrun ==
    [][/\ Len(rb') <= Capacity
       /\ (Len(rb) = Capacity /\ \E x \in 0..MaxSample : Push(x))
          => (rb' = rb /\ rbPushed' = FALSE)]_vars

C10_Witness == Len(rb) = Capacity /\ rbPushed = FALSE

\* download_file calls and cancel_download calls, in any interleaving
NextDL ==
    \/ \E d \in Downloads, i \in Ids : DlCall(d, i)
    \/ \E d \in Downloads : DlResponse(d)
    \/ \E d \in Downloads : DlBody(d)
    \/ \E d \in Downloads : DlCancelled(d)
    \/ \E d \in Downloads : DlCleanup(d)
    \/ \E d \in Downloads : DlDelete(d)
    \/ \E i \in Ids : Cancel(i)

SpecDL == Init /\ [][NextDL]_vars

\* any step of the process_download task
PdStep == PdNext \/ PdWrite \/ PdWriteFail

AllBytes == SumTo(pdStream, Len(pdStream))

\* C11: the bounded writer never holds more than its capacity; while the
\* writer is full, process_download has no step to take and the reader has
\* one; and every call on a stream of Ok chunks eventually returns Ok with
\* every chunk written.
C11_SuspendsAndFinishes ==
    /\ [](wLen <= WCap)
    /\ []((pdPc = "write" /\ wLen = WCap)
            => (~ENABLED PdStep /\ ENABLED DuplexRead))
    /\ (pdPc \in {"next", "write"})
         ~> (pdPc = "done" /\ pdResult = "Ok" /\ Len(pdWritten) = AllBytes)

\* process_download is parked at a full writer while the canary has ticked
C11_Witness ==
    /\ pdPc = "write" /\ wLen = WCap /\ pdCur # <<>>
    /\ ticks > 0 /\ pdPos >= 2

\* C14 as stated: the writer receives the stream's bytes in stream order;
\* Ok is returned only at the end of the stream with every chunk written;
\* at the first Err item, or the first failed write, exactly the chunks that
\* preceded it have been written.
C14_ExactlyPrecedingChunks ==
    /\ \A i \in 1..Len(pdWritten) : pdWritten[i] = i
    /\ pdPc = "done" =>
         /\ pdResult = "Ok" =>
              (pdPos = Len(pdStream) /\ Len(pdWritten) = AllBytes)
         /\ pdResult = "ErrStream" =>
              (pdStream[pdPos + 1] = ErrItem
               /\ Len(pdWritten) = SumTo(pdStream, pdPos))
         /\ pdResult = "ErrWrite" =>
              Len(pdWritten) = SumTo(pdStream, pdPos - 1)

\* C14 amended: the writer receives the stream's bytes in stream order, each
\* once; Ok is returned only at the end of an error-free stream with every
\* chunk written; an Err item is returned at its first occurrence with
\* exactly the preceding chunks written; a failed write is returned with the
\* preceding chunks written, followed at most by a leading part of the
\* chunk whose write failed.
C14_InOrderUpToFailure ==
    /\ \A i \in 1..Len(pdWritten) : pdWritten[i] = i
    /\ \A k \in 1..pdPos : pdStream[k] # ErrItem
    /\ pdPc = "done" =>
         /\ pdResult \in {"Ok", "ErrStream", "ErrWrite"}
         /\ pdResult = "Ok" =>
              /\ pdPos = Len(pdStream)
              /\ Len(pdWritten) = AllBytes
         /\ pdResult = "ErrStream" =>
              /\ pdPos < Len(pdStream)
              /\ pdStream[pdPos + 1] = ErrItem
              /\ Len(pdWritten) = SumTo(pdStream, pdPos)
         /\ pdResult = "ErrWrite" =>
              /\ pdPos >= 1
              /\ Len(pdWritten) >= SumTo(pdStream, pdPos - 1)
              /\ Len(pdWritten) < SumTo(pdStream, pdPos)

\* a write failed after part of the second chunk had been accepted
C14_Witness ==
    /\ pdPc = "done" /\ pdResult = "ErrWrite" /\ pdPos = 2
    /\ Len(pdWritten) > SumTo(pdStream, 1)

\* C15: on_progress is never called with total_size 0; each call reports the
\* bytes written so far, which is the counter downloaded; the reported
\* values never decrease; and the step in which downloaded reaches
\* total_size makes a call.
C15_Progress ==
    [][/\ pdTotal' = 0 => pdProgress' = <<>>
       /\ pdProgress' # pdProgress =>
            /\ pdTotal' > 0
            /\ pdProgress' = Append(pdProgress, pdDownloaded')
            /\ pdDownloaded' = Len(pdWritten')
            /\ pdProgress # <<>> => pdProgress[Len(pdProgress)] <= pdDownloaded'
       /\ (pdDownloaded' # pdDownloaded /\ pdDownloaded' = pdTotal')
            => pdProgress' = Append(pdProgress, pdTotal')]_vars

\* a throttled call was followed by the call that reports total_size
C15_Witness ==
    /\ Len(pdProgress) >= 2
    /\ pdProgress[Len(pdProgress)] = pdTotal
    /\ pdProgress[1] < pdTotal

\* C12 as stated: a download that was signalled by cancel_download after it
\* registered and before its transfer finished returns "Download cancelled"
\* and leaves no output file.
C12_CancelWins ==
    \A d \in Downloads :
        (dlPc[d] = "done" /\ cancelSeen[d])
        => (dlResult[d] = "ErrCancelled" /\ dlFile[d] = "absent")

\* C13: a cancel_download step returns Ok and leaves the registry as it was.
C13_CancelReadsOnly ==
    [][(\E i \in Ids : Cancel(i))
       => (cancelResult' = "Ok" /\ registry' = registry)]_vars

\* one cancel found its download registered, a later one found nothing
C13_Witness ==
    /\ lastCancel = "miss"
    /\ \E d \in Downloads : notify[d] /\ registry[dlId[d]] = d

\* the ways of returning the claim lists, and the stream and write errors
\* that return through the same cleanup
ListedReturns == {"Ok", "ErrCancelled", "ErrStatus", "ErrSend", "ErrCreate",
                  "ErrStream", "ErrWrite", "ErrFlush"}

\* C16 as stated: a download_file call that has returned in one of the
\* listed ways has left no entry of its own in the registry, and when every
\* call made has returned so, has_active_downloads is false.
C16_RegistryCleanedUp ==
    /\ \A d \in Downloads :
         (dlPc[d] = "done" /\ dlResult[d] \in ListedReturns)
         => registry[dlId[d]] # d
    /\ (\A d \in Downloads :
          dlPc[d] = "idle" \/ (dlPc[d] = "done" /\ dlResult[d] \in ListedReturns))
         => ~has_active_downloads

====
